---- MODULE Spec2Model ----
(***************************************************************************)
(* A model of geo-offset's src/offset.rs: the Offset trait and its         *)
(* implementations for the geo geometry types.                             *)
(*                                                                         *)
(* Every call is a pure function of (geometry, distance, arc_segments), so *)
(* the state machine draws the inputs in Init and applies the operation in *)
(* one step.  Numbers are exact: coordinates are integer pairs, computed    *)
(* coordinates are kept as symbolic terms (centre, radius, angle), and the  *)
(* region a ring encloses is sampled at the centres of the unit cells.      *)
(***************************************************************************)
EXTENDS Integers, Sequences, FiniteSets, TLC

VARIABLES
    geom,             \* the receiver of the call (self)
    distance,         \* the f64 argument: sign bit and magnitude
    arc_segments,     \* the u32 argument
    entry,            \* "offset" or "offset_with_arc_segments"
    pc,               \* "start", "call", "done"
    result            \* what the call produced

vars == <<geom, distance, arc_segments, entry, pc, result>>

(***************************************************************************)
(* Bounds of the model.                                                    *)
(***************************************************************************)
MaxCoord == 1      \* input coordinates of points and lines are in 0..MaxCoord
MaxDist == 1       \* |distance| is in 0..MaxDist
MaxArc == 4        \* arc_segments is in 0..MaxArc, or 2^31, or the default
MaxLen == 3        \* coordinates of a LineString
MaxMembers == 2    \* members of a Multi* or a GeometryCollection
MaxSide == 3       \* corners of input polygons are in 0..MaxSide

\* pub const DEFAULT_ARC_SEGMENTS: u32 = 5;
DEFAULT_ARC_SEGMENTS == 5

(***************************************************************************)
(* u32: a pair of 16-bit halves, so that the whole 32-bit range and its    *)
(* overflow are represented exactly.                                       *)
(***************************************************************************)
Half == 2^16

U32(hi, lo) == [hi |-> hi, lo |-> lo]

U32Of(n) == U32(n \div Half, n % Half)

\* the value of a u32 that fits the low half
U32Small(u) == u.hi = 0

U32ToNat(u) == u.lo

U32IsEven(u) == u.lo % 2 = 0

\* u * 2 : the wrapped product and whether it left the range
U32Mul2(u) ==
    LET lo2 == u.lo * 2
        hi2 == u.hi * 2 + (lo2 \div Half)
    IN  [val |-> U32(hi2 % Half, lo2 % Half), overflow |-> hi2 >= Half]

\* u + 1
U32Add1(u) ==
    LET lo1 == u.lo + 1
        hi1 == u.hi + (lo1 \div Half)
    IN  [val |-> U32(hi1 % Half, lo1 % Half), overflow |-> hi1 >= Half]

\* u - 1
U32Sub1(u) ==
    IF u.lo > 0 THEN [val |-> U32(u.hi, u.lo - 1), overflow |-> FALSE]
    ELSE IF u.hi > 0 THEN [val |-> U32(u.hi - 1, Half - 1), overflow |-> FALSE]
    ELSE [val |-> U32(Half - 1, Half - 1), overflow |-> TRUE]

(***************************************************************************)
(* f64 distance: sign bit and magnitude (-0.0 is neg with mag 0).          *)
(***************************************************************************)
Dist(neg, mag) == [neg |-> neg, mag |-> mag]

\* distance < 0.0
LtZero(d) == d.neg /\ d.mag > 0

\* a slip: the sign is kept
Abs_signed(d) == d

\* distance.abs()
Abs(d) == Dist(FALSE, d.mag)

\* distance.is_sign_positive()
IsSignPositive(d) == ~d.neg

(***************************************************************************)
(* Results: Result<MultiPolygon, OffsetError>, extended with the two ways  *)
(* a call can end without returning a value the model holds: a panic       *)
(* (arithmetic overflow with overflow checks on) and a ring whose vertex   *)
(* count does not fit 16 bits, which the model does not build.             *)
(* trace lists, in order, the offset calls made and the boolean            *)
(* operations performed; wrapped says that a u32 operation wrapped around. *)
(***************************************************************************)
Ev(ev, ty, n) == [ev |-> ev, ty |-> ty, n |-> n]

Call(ty) == Ev("offset", ty, 0)

Ok(mp, wrapped, trace) ==
    [kind |-> "Ok", mp |-> mp, err |-> "", wrapped |-> wrapped, trace |-> trace]

Err(e, wrapped, trace) ==
    [kind |-> "Err", mp |-> <<>>, err |-> e, wrapped |-> wrapped, trace |-> trace]

Panic(trace) ==
    [kind |-> "Panic", mp |-> <<>>, err |-> "", wrapped |-> FALSE, trace |-> trace]

Huge(wrapped, trace) ==
    [kind |-> "Huge", mp |-> <<>>, err |-> "", wrapped |-> wrapped, trace |-> trace]

\* r with the events pre put before its own
After(pre, r) == [r EXCEPT !.trace = pre \o r.trace]

(***************************************************************************)
(* Edge (src/edge.rs of the repository, not among the sources): an edge    *)
(* and its normals, which fail on a zero-length edge.                      *)
(***************************************************************************)
EdgeNew(v1, v2) == [current |-> v1, next |-> v2]

\* the direction (next - current) rotated by +90 degrees; its length is
\* normalised to 1 by the code, which divides by the edge length
inwards_normal(e) ==
    LET dx == e.next[1] - e.current[1]
        dy == e.next[2] - e.current[2]
    IN  IF dx = 0 /\ dy = 0
        THEN [ok |-> FALSE, n |-> <<0, 0>>]
        ELSE [ok |-> TRUE, n |-> <<-dy, dx>>]

outwards_normal(e) ==
    LET inw == inwards_normal(e)
    IN  IF inw.ok THEN [ok |-> TRUE, n |-> <<-inw.n[1], -inw.n[2]>>] ELSE inw

\* the coordinate v + unit(n) * d
OffsetVertex(v, n, d) == [kind |-> "offset", c |-> v, r |-> d.mag, n |-> n]

with_offset(e, n, d) ==
    [current |-> OffsetVertex(e.current, n, d), next |-> OffsetVertex(e.next, n, d)]

inverse_with_offset(e, n, d) ==
    [current |-> OffsetVertex(e.next, n, d), next |-> OffsetVertex(e.current, n, d)]

(***************************************************************************)
(* Polygons a call builds from a ring of computed coordinates.             *)
(***************************************************************************)
RingPolygon(ring) ==
    [ty |-> "Polygon", src |-> "ring", exterior |-> ring, interiors |-> <<>>]

(***************************************************************************)
(* impl Offset for geo::Point<f64>                                         *)
(***************************************************************************)
\* the vertex the k-th pass of the closure makes: angle has been increased
\* k times by 2*PI / vertice_count
CircleVertex(p, d, k, count) ==
    [kind |-> "polar", c |-> p, r |-> d.mag, num |-> k, den |-> count]

\* match arc_segments * 2 { count if count % 2 == 0 => count + 1, count => count }
vertice_count(arc, checks) ==
    LET twice == U32Mul2(arc)
        bumped == U32Add1(twice.val)
    IN  IF twice.overflow /\ checks THEN [panic |-> TRUE, val |-> U32(0, 0), wrapped |-> FALSE]
        ELSE IF U32IsEven(twice.val)
        THEN [panic |-> bumped.overflow /\ checks, val |-> bumped.val,
              wrapped |-> twice.overflow \/ bumped.overflow]
        ELSE [panic |-> FALSE, val |-> twice.val, wrapped |-> twice.overflow]

OffsetPoint(p, d, arc, checks) ==
    LET tr == <<Call("Point")>>
    IN  IF LtZero(d) THEN Ok(<<>>, FALSE, tr)
        ELSE LET vc == vertice_count(arc, checks)
             IN  IF vc.panic THEN Panic(tr)
                 ELSE IF ~U32Small(vc.val) THEN Huge(vc.wrapped, tr)
                 ELSE LET count == U32ToNat(vc.val)
                          contour == [k \in 1..count |-> CircleVertex(p.c, d, k, count)]
                      IN  Ok(<<RingPolygon(contour)>>, vc.wrapped, tr)

(***************************************************************************)
(* fn create_arc                                                           *)
(***************************************************************************)
\* the direction of vertex - center, for a vertex computed around center
Direction(vertex, center) ==
    IF vertex.r = 0 THEN <<vertex.c[1] - center[1], vertex.c[2] - center[2]>>
    ELSE vertex.n

\* atan2(dir) normalised into [0, 2*PI): the half turn the direction is in
\* (0: [0, PI), 1: [PI, 2*PI)); atan2(0, 0) is 0
UpperHalf(dir) == dir[2] > 0 \/ (dir[2] = 0 /\ dir[1] >= 0)

\* start_angle > end_angle, for the normalised angles of two directions
AngleGreater(s, e) ==
    LET cross == e[1] * s[2] - e[2] * s[1]
        zero(v) == v = <<0, 0>>
    IN  IF zero(s) THEN FALSE
        ELSE IF zero(e) THEN ~(s[2] = 0 /\ s[1] > 0)
        ELSE IF UpperHalf(s) # UpperHalf(e) THEN ~UpperHalf(s)
        ELSE cross > 0

\* a slip: the count is used as it comes, even or odd
arc_segment_count_kept(segment_count, checks) ==
    [panic |-> FALSE, val |-> segment_count, wrapped |-> FALSE]

\* segment_count - 1 if segment_count is even
arc_segment_count(segment_count, checks) ==
    IF U32IsEven(segment_count)
    THEN LET dec == U32Sub1(segment_count)
         IN  [panic |-> dec.overflow /\ checks, val |-> dec.val, wrapped |-> dec.overflow]
    ELSE [panic |-> FALSE, val |-> segment_count, wrapped |-> FALSE]

\* the point pushed by pass i of the loop: start_angle + segment_angle * i
ArcVertex(center, radius, sdir, edir, outwards, i, count) ==
    [kind |-> "arc", c |-> center, r |-> radius.mag, from |-> sdir, to |-> edir,
     greater |-> AngleGreater(sdir, edir), outwards |-> outwards, i |-> i, of |-> count]

create_arc(vertices, center, radius, start_vertex, end_vertex, segment_count, outwards, checks) ==
    LET sdir == Direction(start_vertex, center)
        edir == Direction(end_vertex, center)
        sc == arc_segment_count(segment_count, checks)
    IN  IF sc.panic THEN [kind |-> "Panic", vertices |-> vertices, wrapped |-> FALSE]
        ELSE IF ~U32Small(sc.val) THEN [kind |-> "Huge", vertices |-> vertices, wrapped |-> sc.wrapped]
        ELSE LET count == U32ToNat(sc.val)
                 inner == [i \in 1..(count - 1) |->
                              ArcVertex(center, radius, sdir, edir, outwards, i, count)]
             IN  [kind |-> "Ok",
                  vertices |-> vertices \o <<start_vertex>> \o inner \o <<end_vertex>>,
                  wrapped |-> sc.wrapped]

(***************************************************************************)
(* impl Offset for geo::Line<f64>                                          *)
(***************************************************************************)
\* [e1.with_offset(in_normal * distance), e1.inverse_with_offset(out_normal * distance)]
Offsets(l, d, in_normal, out_normal) ==
    <<with_offset(EdgeNew(l.start, l.end), in_normal, d),
      inverse_with_offset(EdgeNew(l.start, l.end), out_normal, d)>>

\* pass i = 1 of the loop: current_edge = offsets[1], prev_edge = offsets[0],
\* after pass i = 0 gave first
SecondPass(l, d, arc, offsets, first, checks) ==
    IF first.kind # "Ok" THEN first
    ELSE create_arc(first.vertices, l.end, d, offsets[1].next, offsets[2].current,
                    arc, TRUE, checks)

\* the two passes of the loop over the offset edges; pass i = 0 has
\* current_edge = offsets[0] and prev_edge = offsets[1]
LineVertices(l, d, arc, offsets, checks) ==
    SecondPass(l, d, arc, offsets,
               create_arc(<<>>, l.start, d, offsets[2].next, offsets[1].current,
                          arc, TRUE, checks),
               checks)

\* Ok(MultiPolygon(vec![Polygon::new(LineString(vertices), vec![])]))
LineResult(tr, vs) ==
    CASE vs.kind = "Panic" -> Panic(tr)
      [] vs.kind = "Huge" -> Huge(vs.wrapped, tr)
      [] OTHER -> Ok(<<RingPolygon(vs.vertices)>>, vs.wrapped, tr)

\* a slip: the failed normals are not looked at and the ring is built anyway
LineBranch_unchecked(l, d, arc, inw, outw, checks) ==
    LineResult(<<Call("Line")>>, LineVertices(l, d, arc, Offsets(l, d, inw.n, outw.n), checks))

\* a slip: the failed normals are handed to the caller as an EdgeError
LineBranch_propagating(l, d, arc, inw, outw, checks) ==
    IF inw.ok /\ outw.ok
    THEN LineResult(<<Call("Line")>>,
                    LineVertices(l, d, arc, Offsets(l, d, inw.n, outw.n), checks))
    ELSE Err("EdgeError", FALSE, <<Call("Line")>>)

\* if let (Ok(in_normal), Ok(out_normal)) = (..) { capsule } else { Point offset }
LineBranch(l, d, arc, inw, outw, checks) ==
    IF inw.ok /\ outw.ok
    THEN LineResult(<<Call("Line")>>,
                    LineVertices(l, d, arc, Offsets(l, d, inw.n, outw.n), checks))
    ELSE After(<<Call("Line")>>, OffsetPoint([ty |-> "Point", c |-> l.start], d, arc, checks))

OffsetLine(l, d, arc, checks) ==
    IF LtZero(d) THEN Ok(<<>>, FALSE, <<Call("Line")>>)
    ELSE LineBranch(l, d, arc, inwards_normal(EdgeNew(l.start, l.end)),
                    outwards_normal(EdgeNew(l.start, l.end)), checks)

(***************************************************************************)
(* The boolean engine (geo_booleanop::boolean::BooleanOp), by its          *)
(* contract: union and difference with set semantics over the regions the  *)
(* operands enclose.  A region is the set of unit cells whose centre it    *)
(* contains; a result holds one polygon per connected part, leftmost       *)
(* first.  Lengths are doubled so that cell centres are integers.          *)
(***************************************************************************)
MaxExtent == IF MaxSide > MaxCoord THEN MaxSide ELSE MaxCoord

CellRange == (0 - MaxDist)..(MaxExtent + MaxDist - 1)

Cells == {<<x, y>> : x \in CellRange, y \in CellRange}

Centre(cell) == <<2 * cell[1] + 1, 2 * cell[2] + 1>>

Twice(v) == <<2 * v[1], 2 * v[2]>>

Minus(u, v) == <<u[1] - v[1], u[2] - v[2]>>

Dot(u, v) == u[1] * v[1] + u[2] * v[2]

\* the cell centre is closer than mag to the segment a-b (caps: measured to
\* the whole segment; no caps: only between the perpendiculars at a and b)
NearSegment(cell, a, b, mag, caps) ==
    LET p == Minus(Centre(cell), Twice(a))
        ab == Minus(Twice(b), Twice(a))
        pb == Minus(Centre(cell), Twice(b))
        len2 == Dot(ab, ab)
        t == Dot(p, ab)
        rr == 4 * mag * mag
    IN  IF len2 = 0 THEN Dot(p, p) < rr
        ELSE IF t <= 0 THEN caps /\ Dot(p, p) < rr
        ELSE IF t >= len2 THEN caps /\ Dot(pb, pb) < rr
        ELSE Dot(p, p) * len2 - t * t < rr * len2

\* the region of a ring built by Point or Line offset: the disc or the
\* capsule its vertices lie on; a ring of fewer than three distinct points
\* encloses nothing, and a Line ring without arc points is the rectangle
\* between the two offset edges
RingRegion(ring) ==
    IF Len(ring) < 3 \/ ring[1].r = 0 THEN {}
    ELSE LET centres == {ring[i].c : i \in 1..Len(ring)}
             a == CHOOSE v \in centres : TRUE
             b == CHOOSE v \in centres : centres = {a, v}
             caps == \E i \in 1..Len(ring) : ring[i].kind # "offset"
         IN  {cell \in Cells : NearSegment(cell, a, b, ring[1].r, caps)}

\* crossing number of the ray from the cell centre towards +x
InRing(cell, ring) ==
    LET p == Centre(cell)
        crosses(i) ==
            LET a == Twice(ring[i])
                b == Twice(ring[i + 1])
                dy == b[2] - a[2]
                lhs == (p[1] - a[1]) * dy
                rhs == (p[2] - a[2]) * (b[1] - a[1])
            IN  /\ (a[2] > p[2]) # (b[2] > p[2])
                /\ IF dy > 0 THEN lhs < rhs ELSE lhs > rhs
    IN  Cardinality({i \in 1..(Len(ring) - 1) : crosses(i)}) % 2 = 1

PolygonRegion(p) ==
    CASE p.src = "engine" -> p.area
      [] p.src = "ring" -> RingRegion(p.exterior)
      [] OTHER -> {cell \in Cells :
                      /\ InRing(cell, p.exterior)
                      /\ \A h \in 1..Len(p.interiors) : ~InRing(cell, p.interiors[h])}

Region(mp) == UNION {PolygonRegion(mp[i]) : i \in 1..Len(mp)}

Adjacent(c, e) ==
    \/ c[1] = e[1] /\ (c[2] = e[2] + 1 \/ c[2] = e[2] - 1)
    \/ c[2] = e[2] /\ (c[1] = e[1] + 1 \/ c[1] = e[1] - 1)

RECURSIVE Grow(_, _)
Grow(part, S) ==
    LET more == part \cup {c \in S : \E e \in part : Adjacent(c, e)}
    IN  IF more = part THEN part ELSE Grow(more, S)

Leftmost(S) ==
    CHOOSE c \in S : \A e \in S : c[1] < e[1] \/ (c[1] = e[1] /\ c[2] <= e[2])

EnginePolygon(area) == [ty |-> "Polygon", src |-> "engine", area |-> area]

RECURSIVE Parts(_)
Parts(S) ==
    IF S = {} THEN <<>>
    ELSE LET part == Grow({Leftmost(S)}, S)
         IN  <<EnginePolygon(part)>> \o Parts(S \ part)

Union(a, b) == Parts(Region(a) \cup Region(b))

Difference(a, b) == Parts(Region(a) \ Region(b))

BoolEv(op) == Ev(op, "", 0)

(***************************************************************************)
(* The loop shared by the collection implementations:                      *)
(*     for m in members { let r = m.offset(..)?; acc = acc.union(&r); }    *)
(* rs[i] is what offsetting member i gives; the first member that does not *)
(* return Ok ends the loop and its outcome is the outcome of the call.     *)
(***************************************************************************)
RECURSIVE UnionFold(_, _, _)
UnionFold(rs, i, acc) ==
    IF i > Len(rs) THEN acc
    ELSE IF rs[i].kind # "Ok"
    THEN [rs[i] EXCEPT !.trace = acc.trace \o rs[i].trace,
                       !.wrapped = acc.wrapped \/ rs[i].wrapped]
    ELSE UnionFold(rs, i + 1,
                   Ok(Union(acc.mp, rs[i].mp), acc.wrapped \/ rs[i].wrapped,
                      acc.trace \o rs[i].trace \o <<BoolEv("union")>>))

(***************************************************************************)
(* impl Offset for geo::MultiPoint<f64>                                    *)
(***************************************************************************)
OffsetMultiPoint(mpt, d, arc, checks) ==
    LET tr == <<Call("MultiPoint")>>
    IN  IF LtZero(d) THEN Ok(<<>>, FALSE, tr)
        ELSE UnionFold([i \in 1..Len(mpt.members) |->
                           OffsetPoint(mpt.members[i], d, arc, checks)],
                       1, Ok(<<>>, FALSE, tr))

(***************************************************************************)
(* impl Offset for geo::LineString<f64>                                    *)
(***************************************************************************)
\* self.lines(): the edges between consecutive coordinates
LinesOf(ls) ==
    [i \in 1..(Len(ls.pts) - 1) |-> [ty |-> "Line", start |-> ls.pts[i], end |-> ls.pts[i + 1]]]

\* .iter().skip(1).fold(first, |result, hole| result.difference(hole))
RECURSIVE DifferenceFold(_, _, _)
DifferenceFold(polys, i, acc) ==
    IF i > Len(polys) THEN acc
    ELSE DifferenceFold(polys, i + 1,
                        [acc EXCEPT !.mp = Difference(acc.mp, <<polys[i]>>),
                                    !.trace = acc.trace \o <<BoolEv("difference")>>])

\* .0.get(0).map(|polygon| vec![polygon.clone()]).unwrap_or_default()
FirstPolygon(mp) == IF Len(mp) = 0 THEN <<>> ELSE <<mp[1]>>

\* the loop over self.lines(), from the empty MultiPolygon
MergedLines(lines, d, arc, checks) ==
    UnionFold([i \in 1..Len(lines) |-> OffsetLine(lines[i], d, arc, checks)],
              1, Ok(<<>>, FALSE, <<Call("LineString")>>))

\* the fold over the polygons of the merged lines: the first one, less
\* every later one
FirstLessRest(merged) ==
    IF merged.kind # "Ok" THEN merged
    ELSE DifferenceFold(merged.mp, 2, [merged EXCEPT !.mp = FirstPolygon(merged.mp)])

\* a slip: the first capsule is the shell and every later capsule is taken
\* from it, with no union of the capsules
RECURSIVE CapsuleFold(_, _, _)
CapsuleFold(rs, i, acc) ==
    IF i > Len(rs) THEN acc
    ELSE IF rs[i].kind # "Ok"
    THEN [rs[i] EXCEPT !.trace = acc.trace \o rs[i].trace]
    ELSE CapsuleFold(rs, i + 1,
                     Ok(IF i = 1 THEN rs[i].mp ELSE Difference(acc.mp, rs[i].mp),
                        acc.wrapped \/ rs[i].wrapped,
                        acc.trace \o rs[i].trace \o <<BoolEv("difference")>>))

OffsetLineString_capsules(ls, d, arc, checks) ==
    IF LtZero(d) THEN Ok(<<>>, FALSE, <<Call("LineString")>>)
    ELSE CapsuleFold([i \in 1..(Len(ls.pts) - 1) |-> OffsetLine(LinesOf(ls)[i], d, arc, checks)],
                     1, Ok(<<>>, FALSE, <<Call("LineString")>>))

OffsetLineString(ls, d, arc, checks) ==
    IF LtZero(d) THEN Ok(<<>>, FALSE, <<Call("LineString")>>)
    ELSE FirstLessRest(MergedLines(LinesOf(ls), d, arc, checks))

(***************************************************************************)
(* impl Offset for geo::MultiLineString<f64>                               *)
(***************************************************************************)
\* a slip: no early return for a negative distance
OffsetMultiLineString_unguarded(mls, d, arc, checks) ==
    UnionFold([i \in 1..Len(mls.members) |->
                  OffsetLineString(mls.members[i], d, arc, checks)],
              1, Ok(<<>>, FALSE, <<Call("MultiLineString")>>))

OffsetMultiLineString(mls, d, arc, checks) ==
    LET tr == <<Call("MultiLineString")>>
    IN  IF LtZero(d) THEN Ok(<<>>, FALSE, tr)
        ELSE UnionFold([i \in 1..Len(mls.members) |->
                           OffsetLineString(mls.members[i], d, arc, checks)],
                       1, Ok(<<>>, FALSE, tr))

(***************************************************************************)
(* impl Offset for geo::Polygon<f64>                                       *)
(***************************************************************************)
LineStringOf(pts) == [ty |-> "LineString", pts |-> pts]

MultiLineStringOf(rings) ==
    [ty |-> "MultiLineString", members |-> [i \in 1..Len(rings) |-> LineStringOf(rings[i])]]

\* if distance.is_sign_positive() { union, union } else { difference, difference }
Combine(p, d, exterior_with_offset, interiors_with_offset) ==
    IF IsSignPositive(d)
    THEN Union(Union(<<p>>, exterior_with_offset), interiors_with_offset)
    ELSE Difference(Difference(<<p>>, exterior_with_offset), interiors_with_offset)

CombineOps(d) ==
    IF IsSignPositive(d) THEN <<BoolEv("union"), BoolEv("union")>>
    ELSE <<BoolEv("difference"), BoolEv("difference")>>

\* the end of the call, after both offsets: ext of the exterior, int of the interiors
PolygonResult(p, d, ext, int) ==
    IF int.kind # "Ok"
    THEN [int EXCEPT !.trace = ext.trace \o int.trace, !.wrapped = ext.wrapped \/ int.wrapped]
    ELSE Ok(Combine(p, d, ext.mp, int.mp), ext.wrapped \/ int.wrapped,
            ext.trace \o int.trace \o CombineOps(d))

\* the call after the offset of the exterior returned ext
PolygonInteriors(p, d, arc, ext, checks) ==
    IF ext.kind # "Ok" THEN ext
    ELSE PolygonResult(p, d, ext,
                       OffsetMultiLineString(MultiLineStringOf(p.interiors), Abs(d), arc, checks))

OffsetPolygon(p, d, arc, checks) ==
    PolygonInteriors(p, d, arc,
                     After(<<Call("Polygon")>>,
                           OffsetLineString(LineStringOf(p.exterior), Abs(d), arc, checks)),
                     checks)

(***************************************************************************)
(* impl Offset for geo::MultiPolygon<f64>                                  *)
(***************************************************************************)
OffsetMultiPolygon(mpoly, d, arc, checks) ==
    UnionFold([i \in 1..Len(mpoly.members) |->
                  OffsetPolygon(mpoly.members[i], d, arc, checks)],
              1, Ok(<<>>, FALSE, <<Call("MultiPolygon")>>))

(***************************************************************************)
(* impl Offset for geo::Geometry<f64> and geo::GeometryCollection<f64>     *)
(***************************************************************************)
RECURSIVE OffsetGeometry(_, _, _, _)
RECURSIVE OffsetGeometryCollection(_, _, _, _)

\* a slip: the default arm of the match gives the empty MultiPolygon
Dispatch_lenient(g, d, arc, checks) ==
    CASE g.variant = "Point" -> OffsetPoint(g.inner, d, arc, checks)
      [] g.variant = "Line" -> OffsetLine(g.inner, d, arc, checks)
      [] g.variant = "LineString" -> OffsetLineString(g.inner, d, arc, checks)
      [] g.variant = "Polygon" -> OffsetPolygon(g.inner, d, arc, checks)
      [] g.variant = "MultiPoint" -> OffsetMultiPoint(g.inner, d, arc, checks)
      [] g.variant = "MultiLineString" -> OffsetMultiLineString(g.inner, d, arc, checks)
      [] g.variant = "MultiPolygon" -> OffsetMultiPolygon(g.inner, d, arc, checks)
      [] g.variant = "GeometryCollection" -> OffsetGeometryCollection(g.inner, d, arc, checks)
      [] OTHER -> Ok(<<>>, FALSE, <<>>)

\* the match over the variants of the enum
Dispatch(g, d, arc, checks) ==
    CASE g.variant = "Point" -> OffsetPoint(g.inner, d, arc, checks)
      [] g.variant = "Line" -> OffsetLine(g.inner, d, arc, checks)
      [] g.variant = "LineString" -> OffsetLineString(g.inner, d, arc, checks)
      [] g.variant = "Polygon" -> OffsetPolygon(g.inner, d, arc, checks)
      [] g.variant = "MultiPoint" -> OffsetMultiPoint(g.inner, d, arc, checks)
      [] g.variant = "MultiLineString" -> OffsetMultiLineString(g.inner, d, arc, checks)
      [] g.variant = "MultiPolygon" -> OffsetMultiPolygon(g.inner, d, arc, checks)
      [] g.variant = "GeometryCollection" -> OffsetGeometryCollection(g.inner, d, arc, checks)
      [] OTHER -> Err("UnknownGeometry", FALSE, <<>>)

OffsetGeometry(g, d, arc, checks) ==
    After(<<Call("Geometry")>>, Dispatch(g, d, arc, checks))

\* what offsetting member i gives, after the event that the loop reached it
MemberResults(gc, d, arc, checks) ==
    [i \in 1..Len(gc.members) |->
        After(<<Ev("member", "", i)>>, OffsetGeometry(gc.members[i], d, arc, checks))]

\* a slip: every member is offset, and the first failure is reported after
\* the loop
RECURSIVE CollectFold(_, _, _, _)
CollectFold(rs, i, acc, failed) ==
    IF i > Len(rs)
    THEN IF failed.kind = "Ok" THEN acc ELSE [failed EXCEPT !.trace = acc.trace]
    ELSE IF rs[i].kind # "Ok"
    THEN CollectFold(rs, i + 1, [acc EXCEPT !.trace = acc.trace \o rs[i].trace],
                     IF failed.kind = "Ok" THEN rs[i] ELSE failed)
    ELSE CollectFold(rs, i + 1,
                     Ok(Union(acc.mp, rs[i].mp), acc.wrapped \/ rs[i].wrapped,
                        acc.trace \o rs[i].trace \o <<BoolEv("union")>>),
                     failed)

OffsetGeometryCollection_collecting(gc, d, arc, checks) ==
    CollectFold(MemberResults(gc, d, arc, checks), 1,
                Ok(<<>>, FALSE, <<Call("GeometryCollection")>>), Ok(<<>>, FALSE, <<>>))

OffsetGeometryCollection(gc, d, arc, checks) ==
    UnionFold(MemberResults(gc, d, arc, checks), 1,
              Ok(<<>>, FALSE, <<Call("GeometryCollection")>>))

(***************************************************************************)
(* Inputs: the values the calls are made on.                               *)
(***************************************************************************)
Coords == (0..MaxCoord) \X (0..MaxCoord)

\* the corners of the square (0, 0) - (MaxCoord, MaxCoord)
Corners == {0, MaxCoord} \X {0, MaxCoord}

PointAt(c) == [ty |-> "Point", c |-> c]

LineOf(a, b) == [ty |-> "Line", start |-> a, end |-> b]

SeqsUpTo(S, n) == UNION {[1..k -> S] : k \in 0..n}

Points == {PointAt(c) : c \in Coords}

Lines == {LineOf(a, b) : a \in Coords, b \in Coords}

LineStrings == {LineStringOf(pts) : pts \in SeqsUpTo(Corners, MaxLen)}

MultiPoints ==
    {[ty |-> "MultiPoint", members |-> [i \in DOMAIN cs |-> PointAt(cs[i])]] :
        cs \in SeqsUpTo(Corners, MaxMembers)}

\* the closed ring of the rectangle (x0, y0) - (x1, y1)
RectRing(x0, y0, x1, y1) == <<<<x0, y0>>, <<x1, y0>>, <<x1, y1>>, <<x0, y1>>, <<x0, y0>>>>

PolygonOf(exterior, interiors) ==
    [ty |-> "Polygon", src |-> "input", exterior |-> exterior, interiors |-> interiors]

\* rectangles (0, 0) - (w, h) with w, h in 1..MaxSide, with no hole or with
\* one rectangular hole strictly inside
Polygons ==
    LET side == 1..MaxSide
        rects == side \X side
        holes == {h \in side \X side \X side \X side : h[1] < h[3] /\ h[2] < h[4]}
        holed == {p \in rects \X holes : p[2][3] < p[1][1] /\ p[2][4] < p[1][2]}
    IN  {PolygonOf(RectRing(0, 0, r[1], r[2]), <<>>) : r \in rects}
        \cup {PolygonOf(RectRing(0, 0, p[1][1], p[1][2]),
                        <<RectRing(p[2][1], p[2][2], p[2][3], p[2][4])>>) : p \in holed}

\* line strings that members of a MultiLineString are drawn from
LineStringSamples ==
    << LineStringOf(<<<<0, 0>>, <<MaxCoord, 0>>>>),
       LineStringOf(<<<<MaxCoord, 0>>, <<MaxCoord, MaxCoord>>, <<0, MaxCoord>>>>),
       LineStringOf(<<<<MaxSide, MaxSide>>, <<MaxSide, MaxSide>>>>),
       LineStringOf(<<<<0, 0>>>>) >>

\* polygons that members of a MultiPolygon are drawn from
PolygonSamples ==
    << PolygonOf(RectRing(0, 0, 1, 1), <<>>),
       PolygonOf(RectRing(MaxSide - 1, MaxSide - 1, MaxSide, MaxSide), <<>>),
       PolygonOf(RectRing(0, 0, MaxSide, MaxSide), <<RectRing(1, 1, MaxSide - 1, MaxSide - 1)>>) >>

Pick(samples, idx) == [i \in DOMAIN idx |-> samples[idx[i]]]

MultiLineStrings ==
    {[ty |-> "MultiLineString", members |-> Pick(LineStringSamples, idx)] :
        idx \in SeqsUpTo(DOMAIN LineStringSamples, MaxMembers)}

MultiPolygons ==
    {[ty |-> "MultiPolygon", members |-> Pick(PolygonSamples, idx)] :
        idx \in SeqsUpTo(DOMAIN PolygonSamples, MaxMembers)}

\* a value of the enum geo::Geometry
GeometryOf(g) == [ty |-> "Geometry", variant |-> g.ty, inner |-> g]

CollectionOf(members) == [ty |-> "GeometryCollection", members |-> members]

\* variants of geo::Geometry that the match does not name
RectValue == [ty |-> "Rect", min |-> <<0, 0>>, max |-> <<1, 1>>]

TriangleValue == [ty |-> "Triangle", v |-> <<<<0, 0>>, <<1, 0>>, <<0, 1>>>>]

\* geometries that members of a GeometryCollection are drawn from
MemberSamples ==
    << GeometryOf(PointAt(<<0, 0>>)),
       GeometryOf(PolygonSamples[2]),
       GeometryOf(RectValue),
       GeometryOf(CollectionOf(<<GeometryOf(PointAt(<<MaxCoord, MaxCoord>>))>>)),
       GeometryOf(CollectionOf(<<GeometryOf(PointAt(<<0, 0>>)), GeometryOf(TriangleValue),
                                 GeometryOf(PointAt(<<MaxSide, 0>>))>>)) >>

GeometryCollections ==
    {CollectionOf(Pick(MemberSamples, idx)) : idx \in SeqsUpTo(DOMAIN MemberSamples, MaxMembers)}

\* one value of every variant of geo::Geometry, and the members above
GeometrySamples ==
    MemberSamples \o
    << GeometryOf(TriangleValue),
       GeometryOf(LineOf(<<0, 0>>, <<0, 0>>)),
       GeometryOf(LineOf(<<MaxSide, MaxSide>>, <<MaxSide, MaxSide - 1>>)),
       GeometryOf(LineStringSamples[2]),
       GeometryOf(PolygonSamples[3]),
       GeometryOf([ty |-> "MultiPoint", members |-> <<PointAt(<<0, 0>>), PointAt(<<MaxSide, MaxSide>>)>>]),
       GeometryOf([ty |-> "MultiLineString", members |-> SubSeq(LineStringSamples, 1, 2)]),
       GeometryOf([ty |-> "MultiPolygon", members |-> SubSeq(PolygonSamples, 1, 2)]) >>

Geometries == {GeometrySamples[i] : i \in DOMAIN GeometrySamples}

Distances == {Dist(n, m) : n \in BOOLEAN, m \in 0..MaxDist}

\* small counts, and 2^31, whose double leaves the u32 range; the default
\* count is what the calls through offset pass
ArcInputs == {U32Of(n) : n \in 0..MaxArc} \cup {U32(Half \div 2, 0)}

NoResult == [kind |-> "None", mp |-> <<>>, err |-> "", wrapped |-> FALSE, trace |-> <<>>]

(***************************************************************************)
(* The state machine: a call is drawn in Init and made in one step.        *)
(***************************************************************************)
Init ==
    /\ \/ geom \in Points
       \/ geom \in Lines
       \/ geom \in LineStrings
       \/ geom \in Polygons
       \/ geom \in MultiPoints
       \/ geom \in MultiLineStrings
       \/ geom \in MultiPolygons
       \/ geom \in Geometries
       \/ geom \in GeometryCollections
    /\ distance \in Distances
    /\ \/ entry = "offset" /\ pc = "start" /\ arc_segments = U32(0, 0)
       \/ entry = "offset_with_arc_segments" /\ pc = "call" /\ arc_segments \in ArcInputs
    /\ result = NoResult

\* fn offset(&self, distance) of the trait: the default arc segment count
offset ==
    /\ pc = "start"
    /\ arc_segments' = U32Of(DEFAULT_ARC_SEGMENTS)
    /\ pc' = "call"
    /\ UNCHANGED <<geom, distance, entry, result>>

Returns(r) ==
    /\ result' = r
    /\ pc' = "done"
    /\ UNCHANGED <<geom, distance, arc_segments, entry>>

\* A call returns what the build computes.  The builds differ in one thing:
\* with overflow checks on (checks = TRUE, a debug build) a u32 operation that
\* leaves the range panics, with them off it wraps around.  Where nothing
\* wraps both builds compute the same, so the checked build is only
\* evaluated when the unchecked one wrapped.
Builds(unchecked, checked) ==
    \/ Returns(unchecked)
    \/ unchecked.wrapped /\ Returns(checked)

Point_offset_with_arc_segments ==
    /\ pc = "call"
    /\ geom.ty = "Point"
    /\ Builds(OffsetPoint(geom, distance, arc_segments, FALSE),
              OffsetPoint(geom, distance, arc_segments, TRUE))

Line_offset_with_arc_segments ==
    /\ pc = "call"
    /\ geom.ty = "Line"
    /\ Builds(OffsetLine(geom, distance, arc_segments, FALSE),
              OffsetLine(geom, distance, arc_segments, TRUE))

LineString_offset_with_arc_segments ==
    /\ pc = "call"
    /\ geom.ty = "LineString"
    /\ Builds(OffsetLineString(geom, distance, arc_segments, FALSE),
              OffsetLineString(geom, distance, arc_segments, TRUE))

Polygon_offset_with_arc_segments ==
    /\ pc = "call"
    /\ geom.ty = "Polygon"
    /\ Builds(OffsetPolygon(geom, distance, arc_segments, FALSE),
              OffsetPolygon(geom, distance, arc_segments, TRUE))

MultiPoint_offset_with_arc_segments ==
    /\ pc = "call"
    /\ geom.ty = "MultiPoint"
    /\ Builds(OffsetMultiPoint(geom, distance, arc_segments, FALSE),
              OffsetMultiPoint(geom, distance, arc_segments, TRUE))

MultiLineString_offset_with_arc_segments ==
    /\ pc = "call"
    /\ geom.ty = "MultiLineString"
    /\ Builds(OffsetMultiLineString(geom, distance, arc_segments, FALSE),
              OffsetMultiLineString(geom, distance, arc_segments, TRUE))

MultiPolygon_offset_with_arc_segments ==
    /\ pc = "call"
    /\ geom.ty = "MultiPolygon"
    /\ Builds(OffsetMultiPolygon(geom, distance, arc_segments, FALSE),
              OffsetMultiPolygon(geom, distance, arc_segments, TRUE))

Geometry_offset_with_arc_segments ==
    /\ pc = "call"
    /\ geom.ty = "Geometry"
    /\ Builds(OffsetGeometry(geom, distance, arc_segments, FALSE),
              OffsetGeometry(geom, distance, arc_segments, TRUE))

GeometryCollection_offset_with_arc_segments ==
    /\ pc = "call"
    /\ geom.ty = "GeometryCollection"
    /\ Builds(OffsetGeometryCollection(geom, distance, arc_segments, FALSE),
              OffsetGeometryCollection(geom, distance, arc_segments, TRUE))

Next ==
    \/ offset
    \/ Point_offset_with_arc_segments
    \/ Line_offset_with_arc_segments
    \/ LineString_offset_with_arc_segments
    \/ Polygon_offset_with_arc_segments
    \/ MultiPoint_offset_with_arc_segments
    \/ MultiLineString_offset_with_arc_segments
    \/ MultiPolygon_offset_with_arc_segments
    \/ Geometry_offset_with_arc_segments
    \/ GeometryCollection_offset_with_arc_segments

Spec == Init /\ [][Next]_vars

(***************************************************************************)
(* The claims.  Each is a predicate on the state after the call returned.  *)
(***************************************************************************)
Done == pc = "done"

\* distance >= 0.0 (which -0.0 is)
NotNegative == ~LtZero(distance)

\* distance > 0.0
Positive == ~distance.neg /\ distance.mag > 0

\* result is what r is, whichever build made it
Same(r) ==
    /\ result.kind = r.kind
    /\ result.mp = r.mp
    /\ result.err = r.err
    /\ result.trace = r.trace

RegionsOf(rs) == UNION {Region(rs[i].mp) : i \in 1..Len(rs)}

(* C1 *)
NoArea == {"Point", "Line", "LineString", "MultiPoint", "MultiLineString"}

\* C1: a Point, Line, LineString, MultiPoint or MultiLineString offset by a
\* negative distance returns Ok with no polygon, whatever arc_segments is,
\* having offset no member and performed no union or difference: the only
\* event of the call is the call itself.
C1_NegativeDistanceIsEmpty ==
    (Done /\ geom.ty \in NoArea /\ LtZero(distance))
        => /\ result.kind = "Ok"
           /\ result.mp = <<>>
           /\ result.trace = <<Call(geom.ty)>>

\* a MultiLineString with members, a negative distance and arc_segments = 0
C1_Witness ==
    /\ Done
    /\ geom.ty = "MultiLineString"
    /\ Len(geom.members) >= 2
    /\ Len(geom.members[2].pts) >= 2
    /\ LtZero(distance)
    /\ arc_segments = U32Of(0)
    /\ result.kind = "Ok"

(* C2 *)
Supported ==
    {"Point", "Line", "LineString", "Polygon", "MultiPoint", "MultiLineString",
     "MultiPolygon", "GeometryCollection"}

\* the implementation of the type the value has
DirectOffset(g, d, arc, checks) ==
    CASE g.ty = "Point" -> OffsetPoint(g, d, arc, checks)
      [] g.ty = "Line" -> OffsetLine(g, d, arc, checks)
      [] g.ty = "LineString" -> OffsetLineString(g, d, arc, checks)
      [] g.ty = "Polygon" -> OffsetPolygon(g, d, arc, checks)
      [] g.ty = "MultiPoint" -> OffsetMultiPoint(g, d, arc, checks)
      [] g.ty = "MultiLineString" -> OffsetMultiLineString(g, d, arc, checks)
      [] g.ty = "MultiPolygon" -> OffsetMultiPolygon(g, d, arc, checks)
      [] g.ty = "GeometryCollection" -> OffsetGeometryCollection(g, d, arc, checks)

\* C2: offsetting a Geometry of a variant outside the eight supported ones
\* returns Err(UnknownGeometry) and nothing is computed (no offset call, no
\* boolean operation); for a supported variant the call returns exactly what
\* the offset of the value of that variant returns for the same arguments.
C2_GeometryDispatch ==
    (Done /\ geom.ty = "Geometry")
        => IF geom.variant \in Supported
           THEN \E checks \in BOOLEAN :
                   Same(After(<<Call("Geometry")>>,
                              DirectOffset(geom.inner, distance, arc_segments, checks)))
           ELSE /\ result.kind = "Err"
                /\ result.err = "UnknownGeometry"
                /\ result.mp = <<>>
                /\ result.trace = <<Call("Geometry")>>

\* a Geometry of the variant Triangle was offset
C2_Witness ==
    /\ Done
    /\ geom.ty = "Geometry"
    /\ geom.variant = "Triangle"
    /\ result.err = "UnknownGeometry"

(* C3 *)
\* what offsetting each member alone gives
MemberOutcomes(checks) ==
    [i \in 1..Len(geom.members) |->
        OffsetGeometry(geom.members[i], distance, arc_segments, checks)]

\* the first member whose offset did not return Ok, or 0
FirstNotOk(rs) ==
    IF \E i \in 1..Len(rs) : rs[i].kind # "Ok"
    THEN CHOOSE i \in 1..Len(rs) :
            rs[i].kind # "Ok" /\ \A j \in 1..(i - 1) : rs[j].kind = "Ok"
    ELSE 0

\* the events of a collection whose first n members were offset and united
RECURSIVE EventsOfFirst(_, _)
EventsOfFirst(rs, n) ==
    IF n = 0 THEN <<Call("GeometryCollection")>>
    ELSE EventsOfFirst(rs, n - 1) \o <<Ev("member", "", n)>> \o rs[n].trace
             \o <<BoolEv("union")>>

ShortCircuits(rs) ==
    LET f == FirstNotOk(rs)
    IN  IF f = 0
        THEN /\ result.kind = "Ok"
             /\ Region(result.mp) = RegionsOf(rs)
             /\ result.mp = Parts(RegionsOf(rs))
             /\ result.trace = EventsOfFirst(rs, Len(rs))
        ELSE /\ result.kind = rs[f].kind
             /\ result.err = rs[f].err
             /\ result.mp = <<>>
             /\ result.trace = EventsOfFirst(rs, f - 1) \o <<Ev("member", "", f)>>
                                   \o rs[f].trace

\* C3: a GeometryCollection is offset member by member, in order; the first
\* member whose offset fails (at any depth) ends the call with that error,
\* no later member is offset, and nothing of the union of the earlier members
\* is returned; the call returns Ok only when every member did, and then with
\* the union of all the members' offsets, starting from the empty MultiPolygon.
C3_CollectionShortCircuits ==
    (Done /\ geom.ty = "GeometryCollection")
        => \/ ShortCircuits(MemberOutcomes(FALSE))
           \/ ShortCircuits(MemberOutcomes(TRUE))

\* the first member, a collection itself, failed at its second member, after
\* its first had given a polygon; the second member of the call was not offset
C3_Witness ==
    /\ Done
    /\ geom.ty = "GeometryCollection"
    /\ Len(geom.members) = 2
    /\ geom.members[1].variant = "GeometryCollection"
    /\ Len(geom.members[1].inner.members) = 3
    /\ geom.members[2].variant = "Point"
    /\ Positive
    /\ arc_segments = U32Of(DEFAULT_ARC_SEGMENTS)
    /\ result.kind = "Err"
    /\ result.err = "UnknownGeometry"

(* C4 *)
Magnitude == Dist(FALSE, distance.mag)

ExteriorBuffer ==
    Region(OffsetLineString(LineStringOf(geom.exterior), Magnitude, arc_segments, FALSE).mp)

InteriorBuffers ==
    Region(OffsetMultiLineString(MultiLineStringOf(geom.interiors), Magnitude,
                                 arc_segments, FALSE).mp)

\* C4: the offset of a polygon is, for a distance >= 0, the polygon united
\* with the buffer of its exterior ring and the buffers of its interior rings
\* and, for a distance < 0, the polygon less these buffers, the buffers being
\* those of the absolute value of the distance; so the dilated result contains
\* the polygon and the eroded one lies inside it.
C4_PolygonCombination ==
    (Done /\ geom.ty = "Polygon" /\ result.kind = "Ok")
        => /\ Region(result.mp) =
                 IF NotNegative
                 THEN (Region(<<geom>>) \cup ExteriorBuffer) \cup InteriorBuffers
                 ELSE (Region(<<geom>>) \ ExteriorBuffer) \ InteriorBuffers
           /\ NotNegative => Region(<<geom>>) \subseteq Region(result.mp)
           /\ LtZero(distance) => Region(result.mp) \subseteq Region(<<geom>>)

\* a polygon was eroded to a part of itself that is not empty
C4_Witness ==
    /\ Done
    /\ geom.ty = "Polygon"
    /\ LtZero(distance)
    /\ result.kind = "Ok"
    /\ Region(result.mp) # {}
    /\ Region(result.mp) # Region(<<geom>>)
    /\ ExteriorBuffer # {}

(* C5 *)
\* the region of the capsule of every edge
Capsules ==
    [i \in 1..(Len(geom.pts) - 1) |->
        Region(OffsetLine(LineOf(geom.pts[i], geom.pts[i + 1]), distance,
                          arc_segments, FALSE).mp)]

LineEvents ==
    [i \in 1..(Len(geom.pts) - 1) |->
        OffsetLine(LineOf(geom.pts[i], geom.pts[i + 1]), distance, arc_segments, FALSE).trace
            \o <<BoolEv("union")>>]

RECURSIVE Flatten(_, _)
Flatten(ss, n) == IF n = 0 THEN <<>> ELSE Flatten(ss, n - 1) \o ss[n]

\* C5 as it was stated: the result of a LineString offset with a distance
\* >= 0 is the capsule of the first edge less the capsule of every later edge.
C5_FirstCapsuleLessRest ==
    (Done /\ geom.ty = "LineString" /\ NotNegative /\ result.kind = "Ok")
        => Region(result.mp) =
              IF Len(Capsules) = 0 THEN {}
              ELSE Capsules[1] \ UNION {Capsules[i] : i \in 2..Len(Capsules)}

\* C5, amended: the capsules of all the edges are united, from the empty
\* MultiPolygon and in the order of the edges; the result is the first polygon
\* of that union less every later polygon of that union, in order.
C5_FirstOfUnionLessRest ==
    (Done /\ geom.ty = "LineString" /\ NotNegative /\ result.kind = "Ok")
        => LET united == Parts(UNION {Capsules[i] : i \in 1..Len(Capsules)})
               rest == UNION {united[i].area : i \in 2..Len(united)}
           IN  /\ result.mp = IF Len(united) = 0 THEN <<>>
                              ELSE Parts(united[1].area \ rest)
               /\ result.trace =
                      <<Call("LineString")>> \o Flatten(LineEvents, Len(LineEvents))
                          \o [i \in 1..(Len(united) - 1) |-> BoolEv("difference")]

\* a line string of two edges that are not the same was offset by a positive
\* distance, and the result holds cells that are not in the first capsule
C5_Witness ==
    /\ Done
    /\ geom.ty = "LineString"
    /\ Len(geom.pts) = 3
    /\ Positive
    /\ result.kind = "Ok"
    /\ Capsules[2] # {}
    /\ ~(Region(result.mp) \subseteq Capsules[1])

(* C6 *)
\* C6: a Line whose start and end are the same coordinate c, offset by a
\* distance > 0, gives exactly what Point c gives for the same distance and
\* arc_segments: the ring is the one Point offset makes (no arc is made and
\* no offset edge is used), and no error is returned.
C6_DegenerateLineIsPoint ==
    (Done /\ geom.ty = "Line" /\ geom.start = geom.end /\ Positive)
        => /\ \E checks \in BOOLEAN :
                 Same(After(<<Call("Line")>>,
                            OffsetPoint(PointAt(geom.start), distance, arc_segments, checks)))
           /\ result.kind # "Err"
           /\ result.kind = "Ok" =>
                 \A i \in 1..Len(result.mp[1].exterior) :
                    result.mp[1].exterior[i].kind = "polar"

C6_Witness ==
    /\ Done
    /\ geom.ty = "Line"
    /\ geom.start = geom.end
    /\ Positive
    /\ result.kind = "Ok"
    /\ Len(result.mp) = 1
    /\ Len(result.mp[1].exterior) = 2 * U32ToNat(arc_segments) + 1
    /\ U32ToNat(arc_segments) >= 1

(* C7 *)
\* the ring of n vertices around c, vertex k at k increments of 2*PI / n
IsCircle(ring, c, r) ==
    \A k \in 1..Len(ring) :
        ring[k] = [kind |-> "polar", c |-> c, r |-> r, num |-> k, den |-> Len(ring)]

CircleOf(n) ==
    /\ result.kind = "Ok"
    /\ Len(result.mp) = 1
    /\ result.mp[1].interiors = <<>>
    /\ Len(result.mp[1].exterior) % 2 = 1
    /\ U32Of((Len(result.mp[1].exterior) - 1) \div 2) = n
    /\ IsCircle(result.mp[1].exterior, geom.c, distance.mag)

\* C7: a Point offset with a distance >= 0 and arc_segments = n >= 1 returns
\* one polygon without holes whose ring has 2n + 1 vertices, vertex k at the
\* angle k * 2*PI / (2n + 1), the first one increment past the angle 0.
C7_CircleOfTwiceNPlusOne ==
    (Done /\ geom.ty = "Point" /\ NotNegative /\ arc_segments # U32Of(0))
        => CircleOf(arc_segments)

\* C7 where 2n + 1 is within the u32 range: there the statement holds.
C7_CircleWithinRange ==
    (Done /\ geom.ty = "Point" /\ NotNegative /\ arc_segments # U32Of(0)
          /\ arc_segments.hi < Half \div 2)
        => /\ CircleOf(arc_segments)
           /\ arc_segments = U32Of(DEFAULT_ARC_SEGMENTS) => Len(result.mp[1].exterior) = 11

(* C8 *)
\* the odd count create_arc works with
OddCount(n) == IF n % 2 = 1 THEN n ELSE n - 1

IsArcPoint(v, center, i, count) ==
    v.kind = "arc" /\ v.c = center /\ v.i = i /\ v.of = count /\ v.outwards

\* the two offset edges of the line of the call
CallOffsets ==
    Offsets(geom, distance, inwards_normal(EdgeNew(geom.start, geom.end)).n,
            outwards_normal(EdgeNew(geom.start, geom.end)).n)

\* C8: with segment_count >= 1 and k the count made odd (segment_count, or
\* segment_count - 1 if that is even), create_arc leaves the buffer as it was
\* and appends k + 1 points: start_vertex, the points 1 .. k - 1 of the
\* subdivision, end_vertex; the ring of a Line that is not degenerate is made
\* of the 2 * (k + 1) points of its two arcs.
C8_ArcAppends ==
    (Done /\ geom.ty = "Line" /\ geom.start # geom.end /\ NotNegative
          /\ U32Small(arc_segments) /\ U32ToNat(arc_segments) >= 1)
        => LET k == OddCount(U32ToNat(arc_segments))
               ring == result.mp[1].exterior
               first == create_arc(<<>>, geom.start, distance, CallOffsets[2].next,
                                   CallOffsets[1].current, arc_segments, TRUE, FALSE).vertices
           IN  /\ result.kind = "Ok"
               /\ Len(result.mp) = 1
               /\ Len(first) = k + 1
               /\ Len(ring) = 2 * (k + 1)
               /\ SubSeq(ring, 1, k + 1) = first
               /\ ring[1] = CallOffsets[2].next
               /\ ring[k + 1] = CallOffsets[1].current
               /\ ring[k + 2] = CallOffsets[1].next
               /\ ring[2 * k + 2] = CallOffsets[2].current
               /\ \A i \in 1..(k - 1) :
                     /\ IsArcPoint(ring[1 + i], geom.start, i, k)
                     /\ IsArcPoint(ring[k + 2 + i], geom.end, i, k)

\* a line was offset with the even count 4: two arcs of 3 + 1 points
C8_Witness ==
    /\ Done
    /\ geom.ty = "Line"
    /\ geom.start # geom.end
    /\ Positive
    /\ arc_segments = U32Of(4)
    /\ result.kind = "Ok"
    /\ Len(result.mp[1].exterior) = 8
    /\ result.mp[1].exterior[6].kind = "arc"

(* C9 *)
RECURSIVE HoldsUnsupported(_)
HoldsUnsupported(g) ==
    CASE g.ty = "Geometry" ->
            IF g.variant \in Supported THEN HoldsUnsupported(g.inner) ELSE TRUE
      [] g.ty = "GeometryCollection" ->
            \E i \in 1..Len(g.members) : HoldsUnsupported(g.members[i])
      [] OTHER -> FALSE

\* C9: no call returns EdgeError; a call on a Point, Line, LineString,
\* Polygon, MultiPoint, MultiLineString or MultiPolygon that returns, returns
\* Ok, zero-length edges included; the only error returned is
\* UnknownGeometry, by a Geometry or a GeometryCollection that holds a value
\* of an unsupported variant.
C9_OnlyUnknownGeometry ==
    Done => /\ result.err # "EdgeError"
            /\ result.kind = "Err"
                  => /\ result.err = "UnknownGeometry"
                     /\ geom.ty \in {"Geometry", "GeometryCollection"}
                     /\ HoldsUnsupported(geom)

\* a line string whose first edge has no length was offset
C9_Witness ==
    /\ Done
    /\ geom.ty = "LineString"
    /\ Len(geom.pts) = 3
    /\ geom.pts[1] = geom.pts[2]
    /\ geom.pts[2] # geom.pts[3]
    /\ Positive
    /\ result.kind = "Ok"
    /\ result.mp # <<>>

(* C10 *)
\* C10: for every arc_segments of the u32 range, 0 included, the arithmetic
\* on the counts stays within the range: segment_count - 1 is not below 0 and
\* arc_segments * 2 (+ 1) is not above 2^32 - 1, so no call panics on it and
\* no count wraps around.
C10_CountsStayInRange ==
    Done => result.kind # "Panic" /\ ~result.wrapped

====
